---- MODULE Spec2Model ----
(***************************************************************************)
(* ConversationTranslator (main.py): user profiles and translation history *)
(* kept in two JSON files, a translate operation that detects the source   *)
(* language, loads the model of the language pair, translates and appends  *)
(* an entry to the history, and the interactive chat loop around it.       *)
(*                                                                         *)
(* A Python str is a sequence of one-character strings.  A file is a       *)
(* record [exists, data], data being the sequence of JSON tokens it holds. *)
(* A dict is a function whose DOMAIN is its key set.                       *)
(***************************************************************************)
EXTENDS Integers, Sequences, FiniteSets, TLC

VARIABLES
    profilesFile,        \* user_profiles.json
    historyFile,         \* translation_history.json
    user_profiles,       \* self.user_profiles
    translation_history, \* self.translation_history
    pc,                  \* "idle": the object is constructed, no call runs;
                         \* "chat": inside chat()'s while loop, before input();
                         \* "crashed": an exception ended the process
    chat_user,           \* chat()'s user_id argument
    ret                  \* the last event: the call, what it returned, raised
                         \* and showed

vars == <<profilesFile, historyFile, user_profiles, translation_history,
          pc, chat_user, ret>>

----------------------------------------------------------------------------
(* Bounds *)

MaxHist == 2      \* entries the history file may hold

----------------------------------------------------------------------------
(* Strings *)

s_en == <<"e", "n">>
s_fr == <<"f", "r">>
s_exit == <<"e", "x", "i", "t">>
s_target_lang == <<"t", "l">>      \* the key "target_lang"
s_none == <<>>

UserIds == {<<"a">>, <<"b">>}
Langs == {s_en, s_fr}
\* a text to translate; it starts with the word that ends the chat loop
Texts == {<<"e", "x", "i", "t", "s">>}
Lines == Texts \cup {s_exit, <<"E", "x", "I", "T">>}
Outputs == {<<"o">>}
Timestamps == {[datetime |-> <<"1">>, timezone |-> <<"U">>]}

\* str.lower() on one character
LowerChar(c) ==
    CASE c = "E" -> "e"
      [] c = "X" -> "x"
      [] c = "I" -> "i"
      [] c = "T" -> "t"
      [] c = "H" -> "h"
      [] OTHER -> c

\* str.lower()
lower(s) == [i \in 1..Len(s) |-> LowerChar(s[i])]

----------------------------------------------------------------------------
(* JSON text *)

LB == [t |-> "{", v |-> <<>>]
RB == [t |-> "}", v |-> <<>>]
LS == [t |-> "[", v |-> <<>>]
RS == [t |-> "]", v |-> <<>>]
S(str) == [t |-> "str", v |-> str]

IsStr(tok) == tok.t = "str"

EmptyDict == [k \in {} |-> [target_lang |-> s_none]]

RECURSIVE KeysInOrder(_)
KeysInOrder(K) ==
    IF K = {} THEN <<>>
    ELSE LET k == CHOOSE x \in K : TRUE
         IN  <<k>> \o KeysInOrder(K \ {k})

RECURSIVE DumpProfileItems(_, _)
DumpProfileItems(d, keys) ==
    IF keys = <<>> THEN <<>>
    ELSE <<S(Head(keys)), LB, S(s_target_lang), S(d[Head(keys)].target_lang), RB>>
         \o DumpProfileItems(d, Tail(keys))

\* json.dump(self.user_profiles, file, indent=4)
dump_profiles(d) == <<LB>> \o DumpProfileItems(d, KeysInOrder(DOMAIN d)) \o <<RB>>

RECURSIVE LoadProfileItems(_, _)
\* the object's members, left to right; a repeated key keeps its last value
LoadProfileItems(toks, acc) ==
    IF toks = <<>> THEN [ok |-> TRUE, value |-> acc]
    ELSE IF Len(toks) < 5 THEN [ok |-> FALSE, value |-> EmptyDict]
    ELSE IF /\ IsStr(toks[1]) /\ toks[2] = LB /\ toks[3] = S(s_target_lang)
            /\ IsStr(toks[4]) /\ toks[5] = RB
         THEN LoadProfileItems(
                  SubSeq(toks, 6, Len(toks)),
                  [k \in DOMAIN acc \cup {toks[1].v} |->
                      IF k = toks[1].v THEN [target_lang |-> toks[4].v] ELSE acc[k]])
         ELSE [ok |-> FALSE, value |-> EmptyDict]

\* json.loads(data) of the profile file: ok = FALSE is JSONDecodeError
loads_profiles(data) ==
    IF Len(data) >= 2 /\ data[1] = LB /\ data[Len(data)] = RB
    THEN LoadProfileItems(SubSeq(data, 2, Len(data) - 1), EmptyDict)
    ELSE [ok |-> FALSE, value |-> EmptyDict]

DumpEntry(e) ==
    <<LB, S(e.user_id), LB, S(e.timestamp.datetime), S(e.timestamp.timezone), RB,
      S(e.input_text), S(e.translated_text), RB>>

RECURSIVE DumpEntries(_)
DumpEntries(h) ==
    IF h = <<>> THEN <<>> ELSE DumpEntry(Head(h)) \o DumpEntries(Tail(h))

\* json.dump(self.translation_history, file, indent=4)
dump_history(h) == <<LS>> \o DumpEntries(h) \o <<RS>>

RECURSIVE LoadEntries(_, _)
LoadEntries(toks, acc) ==
    IF toks = <<>> THEN [ok |-> TRUE, value |-> acc]
    ELSE IF Len(toks) < 9 THEN [ok |-> FALSE, value |-> <<>>]
    ELSE IF /\ toks[1] = LB /\ IsStr(toks[2]) /\ toks[3] = LB /\ IsStr(toks[4])
            /\ IsStr(toks[5]) /\ toks[6] = RB /\ IsStr(toks[7]) /\ IsStr(toks[8])
            /\ toks[9] = RB
         THEN LoadEntries(
                  SubSeq(toks, 10, Len(toks)),
                  Append(acc, [user_id |-> toks[2].v,
                               timestamp |-> [datetime |-> toks[4].v,
                                              timezone |-> toks[5].v],
                               input_text |-> toks[7].v,
                               translated_text |-> toks[8].v]))
         ELSE [ok |-> FALSE, value |-> <<>>]

\* json.loads(data) of the history file: ok = FALSE is JSONDecodeError
loads_history(data) ==
    IF Len(data) >= 2 /\ data[1] = LS /\ data[Len(data)] = RS
    THEN LoadEntries(SubSeq(data, 2, Len(data) - 1), <<>>)
    ELSE [ok |-> FALSE, value |-> <<>>]

----------------------------------------------------------------------------
(* Files *)

Missing == [exists |-> FALSE, data |-> <<>>]
File(data) == [exists |-> TRUE, data |-> data]

\* what open(name, "w") followed by json.dump leaves in the file:
\*   "ok"         the whole text;
\*   "open_fail"  open() raised, the file is as it was;
\*   "write_fail" open() truncated the file, then the write raised before
\*                any text reached the file.
WriteOutcomes == {"ok", "open_fail", "write_fail"}

WriteFile(old, data, io) ==
    CASE io = "ok" -> File(data)
      [] io = "open_fail" -> old
      [] OTHER -> File(<<>>)

----------------------------------------------------------------------------
(* Exceptions: the class, the prefix main.py puts before str(e), and the   *)
(* call the underlying exception came from                                 *)

NoExc == [type |-> "none", prefix |-> "", cause |-> ""]
Raised(type, cause) == [type |-> type, prefix |-> "", cause |-> cause]

----------------------------------------------------------------------------
(* Profiles *)

NoProfile == [target_lang |-> s_none]
DefaultProfile == [target_lang |-> s_en]

\* the loaders' "except JSONDecodeError" clause: what json.loads gave, or the
\* empty collection
OrEmpty(r, empty) ==
    IF r.ok THEN [raised |-> FALSE, value |-> r.value]
    ELSE [raised |-> FALSE, value |-> empty]

\* JSONDecodeError leaving the loader
OrRaise(r, empty) ==
    IF r.ok THEN [raised |-> FALSE, value |-> r.value]
    ELSE [raised |-> TRUE, value |-> empty]

\* load_user_profiles with "except FileNotFoundError" alone
load_user_profiles_OnlyMissing(file) ==
    IF ~file.exists THEN [raised |-> FALSE, value |-> EmptyDict]
    ELSE IF file.data # <<>> THEN OrRaise(loads_profiles(file.data), EmptyDict)
    ELSE [raised |-> FALSE, value |-> EmptyDict]

\* load_user_profiles: the value self.user_profiles gets; raised is an
\* exception leaving the method
load_user_profiles(file) ==
    IF ~file.exists THEN [raised |-> FALSE, value |-> EmptyDict]
    ELSE IF file.data # <<>> THEN OrEmpty(loads_profiles(file.data), EmptyDict)
    ELSE [raised |-> FALSE, value |-> EmptyDict]

\* save_user_profiles
save_user_profiles(file, d, io) ==
    [file |-> WriteFile(file, dump_profiles(d), io),
     raised |-> io # "ok",
     exc |-> IF io = "ok" THEN NoExc ELSE Raised("OSError", "open")]

\* d[user_id] = profile
SetItem(d, user_id, profile) ==
    [k \in DOMAIN d \cup {user_id} |-> IF k = user_id THEN profile ELSE d[k]]

\* get_user_profile storing the default with self.user_profiles[user_id] = ...
get_user_profile_Overwrite(file, d, user_id) ==
    [profiles |-> SetItem(d, user_id, DefaultProfile), file |-> file,
     value |-> DefaultProfile]

\* get_user_profile saving the registry when it creates the default profile
get_user_profile_Persists(file, d, user_id) ==
    IF user_id \in DOMAIN d
    THEN [profiles |-> d, file |-> file, value |-> d[user_id]]
    ELSE [profiles |-> SetItem(d, user_id, DefaultProfile),
          file |-> File(dump_profiles(SetItem(d, user_id, DefaultProfile))),
          value |-> DefaultProfile]

\* get_user_profile: dict.setdefault; the profile file is not opened
get_user_profile(file, d, user_id) ==
    IF user_id \in DOMAIN d
    THEN [profiles |-> d, file |-> file, value |-> d[user_id]]
    ELSE [profiles |-> SetItem(d, user_id, DefaultProfile), file |-> file,
          value |-> DefaultProfile]

\* what save_user_profile leaves: the registry d and save_user_profiles' result
ProfileSaved(d, s) ==
    [profiles |-> d, file |-> s.file, raised |-> s.raised, exc |-> s.exc]

\* save_user_profile with its two statements swapped
save_user_profile_SaveFirst(file, d, user_id, profile, io) ==
    ProfileSaved(SetItem(d, user_id, profile), save_user_profiles(file, d, io))

\* save_user_profile
save_user_profile(file, d, user_id, profile, io) ==
    ProfileSaved(SetItem(d, user_id, profile),
                 save_user_profiles(file, SetItem(d, user_id, profile), io))

\* register_user's save_user_profile call after its get_user_profile call
register_save(g, user_id, target_lang, io) ==
    save_user_profile(g.file, g.profiles, user_id,
                      [target_lang |-> target_lang], io)

\* register_user, after its two input() calls
register_user(file, d, user_id, target_lang, io) ==
    register_save(get_user_profile(file, d, user_id), user_id, target_lang, io)

----------------------------------------------------------------------------
(* History *)

ReadOutcomes == {"ok", "open_fail"}

\* load_translation_history: the value self.translation_history gets; raised
\* is an exception leaving the method
load_translation_history(file, io) ==
    IF io # "ok" THEN [raised |-> TRUE, value |-> <<>>]
    ELSE IF ~file.exists THEN [raised |-> FALSE, value |-> <<>>]
    ELSE IF file.data # <<>> THEN OrEmpty(loads_history(file.data), <<>>)
    ELSE [raised |-> FALSE, value |-> <<>>]

\* save_translation_history
save_translation_history(file, h, io) ==
    [file |-> WriteFile(file, dump_history(h), io),
     raised |-> io # "ok",
     exc |-> IF io = "ok" THEN NoExc ELSE Raised("OSError", "open")]

\* what append_to_translation_history leaves: the list h and
\* save_translation_history's result
HistorySaved(h, s) ==
    [file |-> s.file, history |-> h, raised |-> s.raised, exc |-> s.exc]

\* append_to_translation_history after load_translation_history gave l
append_loaded(file, mem, l, entry, wr) ==
    IF l.raised
    THEN [file |-> file, history |-> mem, raised |-> TRUE,
          exc |-> Raised("OSError", "open")]
    ELSE HistorySaved(Append(l.value, entry),
                      save_translation_history(file, Append(l.value, entry), wr))

\* append_to_translation_history without its load_translation_history() call
append_to_translation_history_NoReload(file, mem, entry, rd, wr) ==
    append_loaded(file, mem, [raised |-> FALSE, value |-> mem], entry, wr)

\* append_to_translation_history
append_to_translation_history(file, mem, entry, rd, wr) ==
    append_loaded(file, mem, load_translation_history(file, rd), entry, wr)

----------------------------------------------------------------------------
(* translate *)

\* langdetect.detect: a language code, or an exception
DetectOutcomes ==
    {[raises |-> FALSE, lang |-> s_fr], [raises |-> TRUE, lang |-> s_none]}

\* MarianMTModel/MarianTokenizer.from_pretrained: the model of the pair, or an
\* exception, of class RuntimeError or of another class
PretrainedOutcomes == {"ok", "OSError", "RuntimeError"}

\* tokenizer.encode, model.generate, tokenizer.decode
GenerateOutcomes == {"ok", "ValueError", "RuntimeError"}

\* what the library calls and the file system do during one translate call;
\* a step translate does not get to is left at "ok"
Envs ==
    {e \in [detect : DetectOutcomes, pretrained : PretrainedOutcomes,
            generate : GenerateOutcomes, out : Outputs, now : Timestamps,
            rd : ReadOutcomes, wr : WriteOutcomes] :
        /\ e.detect.raises => e.pretrained = "ok"
        /\ e.detect.raises \/ e.pretrained # "ok" => e.generate = "ok"
        /\ e.detect.raises \/ e.pretrained # "ok" \/ e.generate # "ok"
               => e.rd = "ok"
        /\ e.detect.raises \/ e.pretrained # "ok" \/ e.generate # "ok"
               \/ e.rd # "ok" => e.wr = "ok"}

\* detect_language
detect_language(text, det) ==
    IF det.raises
    THEN [raised |-> TRUE, value |-> s_none,
          exc |-> [type |-> "RuntimeError",
                   prefix |-> "Error detecting language: ",
                   cause |-> "detect"]]
    ELSE [raised |-> FALSE, value |-> det.lang, exc |-> NoExc]

\* translate's except clauses with "raise e" in the second
Reraise_Unwrapped(e) == e

\* translate's two except clauses
Reraise(e) ==
    IF e.type = "RuntimeError" THEN e
    ELSE [type |-> "RuntimeError", prefix |-> "Error during translation: ",
          cause |-> e.cause]

\* translate's try block raising e at a step
TryFailed(hfile, mem, stage, e) ==
    [file |-> hfile, history |-> mem, raised |-> TRUE, exc |-> Reraise(e),
     value |-> s_none, stage |-> stage, translated |-> s_none]

\* translate's try block from the append on, a being
\* append_to_translation_history's result
try_append(a, env) ==
    [file |-> a.file, history |-> a.history, raised |-> a.raised,
     exc |-> IF a.raised THEN Reraise(a.exc) ELSE NoExc,
     value |-> IF a.raised THEN s_none ELSE env.out,
     stage |-> IF a.raised THEN "append" ELSE "done",
     translated |-> env.out]

\* translate's try block with the entry appended before the model is loaded
try_model_LogsFirst(a, env) ==
    IF a.raised THEN try_append(a, env)
    ELSE IF env.pretrained # "ok"
    THEN TryFailed(a.file, a.history, "capability",
                   Raised(env.pretrained, "from_pretrained"))
    ELSE IF env.generate # "ok"
    THEN TryFailed(a.file, a.history, "invoke", Raised(env.generate, "generate"))
    ELSE try_append(a, env)

translate_try_LogsFirst(hfile, mem, entry, env) ==
    try_model_LogsFirst(
        append_to_translation_history(hfile, mem, entry, env.rd, env.wr), env)

\* translate's try block: the history file and list it leaves, what it returns
\* or raises, the step it got to and the text the model produced
translate_try(hfile, mem, entry, env) ==
    IF env.pretrained # "ok"
    THEN TryFailed(hfile, mem, "capability",
                   Raised(env.pretrained, "from_pretrained"))
    ELSE IF env.generate # "ok"
    THEN TryFailed(hfile, mem, "invoke", Raised(env.generate, "generate"))
    ELSE try_append(
             append_to_translation_history(hfile, mem, entry, env.rd, env.wr),
             env)

\* translate's result: the registry and profile file after get_user_profile
\* (g), and the try block's result (t)
Translated(g, t) ==
    [profiles |-> g.profiles, pfile |-> g.file, file |-> t.file,
     history |-> t.history, raised |-> t.raised, exc |-> t.exc,
     value |-> t.value, stage |-> t.stage, translated |-> t.translated,
     target_lang |-> g.value.target_lang]

\* translate after get_user_profile gave g and detect_language gave d
translate_detected(g, d, hfile, mem, text, user_id, env) ==
    IF d.raised
    THEN Translated(g, [file |-> hfile, history |-> mem, raised |-> TRUE,
                        exc |-> d.exc, value |-> s_none, stage |-> "detect",
                        translated |-> s_none])
    ELSE Translated(g, translate_try(hfile, mem,
                                     [user_id |-> user_id, timestamp |-> env.now,
                                      input_text |-> text,
                                      translated_text |-> env.out],
                                     env))

\* translate: the registry, the two files and the history list it leaves, and
\* the try block's result
translate(pfile, up, hfile, mem, text, user_id, env) ==
    translate_detected(get_user_profile(pfile, up, user_id),
                       detect_language(text, env.detect),
                       hfile, mem, text, user_id, env)

\* chat()'s try statement around translate, r being translate's result: where
\* the loop is afterwards and what it showed
chat_try(r) ==
    [profiles |-> r.profiles, pfile |-> r.pfile, file |-> r.file,
     history |-> r.history,
     pc |-> IF r.raised /\ r.exc.type # "RuntimeError" THEN "crashed" ELSE "chat",
     shown |-> IF ~r.raised THEN "result"
               ELSE IF r.exc.type = "RuntimeError" THEN "error"
               ELSE "none",
     raised |-> r.raised, exc |-> r.exc, value |-> r.value,
     stage |-> r.stage, translated |-> r.translated]

\* one pass of chat()'s loop on an input line
chat_step(pfile, up, hfile, mem, line, user_id, env) ==
    IF lower(line) = s_exit
    THEN [profiles |-> up, pfile |-> pfile, file |-> hfile, history |-> mem,
          pc |-> "idle", shown |-> "goodbye", raised |-> FALSE, exc |-> NoExc,
          value |-> s_none, stage |-> "", translated |-> s_none]
    ELSE chat_try(translate(pfile, up, hfile, mem, line, user_id, env))

----------------------------------------------------------------------------
(* The state machine *)

NoTime == [datetime |-> s_none, timezone |-> s_none]

\* the history a reader of the file gets
Persisted(file) == load_translation_history(file, "ok").value

\* the registry a newly constructed object gets
Stored(file) == load_user_profiles(file).value

\* an event: the call (op) and its arguments (user, text, profile), what it
\* returned (profile, value) or raised (exc), how far translate got (stage),
\* the text the model produced (translated), the timestamp taken (now), what
\* the chat loop showed (shown), and whether the history list of the object
\* was behind the history file when the call began (stale)
Event(op) ==
    [op |-> op, user |-> s_none, text |-> s_none, raised |-> FALSE,
     exc |-> NoExc, profile |-> NoProfile, value |-> s_none,
     translated |-> s_none, now |-> NoTime, stage |-> "", shown |-> "none",
     stale |-> FALSE]

Entries ==
    [user_id : UserIds, timestamp : Timestamps, input_text : Texts,
     translated_text : Outputs]

SavedProfiles == [k \in {<<"a">>} |-> [target_lang |-> s_fr]]

\* contents the profile file may start with: no file, a zero-length file,
\* text that is not JSON, and saved registries
ProfileFileContents ==
    {Missing, File(<<>>), File(<<LB, S(<<"a">>)>>),
     File(dump_profiles(SavedProfiles))}

\* contents the history file may start with
HistoryFileContents ==
    {Missing, File(<<>>), File(<<LS, LB>>), File(dump_history(<<>>))}
        \cup {File(dump_history(<<e>>)) : e \in Entries}

\* __init__, l being load_user_profiles' result
Constructed(l) ==
    /\ user_profiles' = l.value
    /\ translation_history' = <<>>
    /\ pc' = IF l.raised THEN "crashed" ELSE "idle"
    /\ ret' = [Event("construct") EXCEPT !.raised = l.raised]

InitObject(l) ==
    /\ user_profiles = l.value
    /\ translation_history = <<>>
    /\ pc = IF l.raised THEN "crashed" ELSE "idle"
    /\ ret = [Event("construct") EXCEPT !.raised = l.raised]

Init ==
    /\ profilesFile \in ProfileFileContents
    /\ historyFile \in HistoryFileContents
    /\ InitObject(load_user_profiles(profilesFile))
    /\ chat_user = s_none

\* the program is run again
Restart ==
    /\ pc \in {"idle", "crashed"}
    /\ Constructed(load_user_profiles(profilesFile))
    /\ chat_user' = s_none
    /\ UNCHANGED <<profilesFile, historyFile>>

\* the state a registry call leaves, r being its result
Returned(op, r, user_id, profile) ==
    /\ user_profiles' = r.profiles
    /\ profilesFile' = r.file
    /\ ret' = [Event(op) EXCEPT !.user = user_id, !.profile = profile,
                                !.raised = r.raised, !.exc = r.exc]

\* the state get_user_profile leaves, g being its result
Got(g, user_id) ==
    /\ user_profiles' = g.profiles
    /\ profilesFile' = g.file
    /\ ret' = [Event("get") EXCEPT !.user = user_id, !.profile = g.value]

\* a call of get_user_profile(user_id)
Get(user_id) ==
    /\ pc = "idle"
    /\ Got(get_user_profile(profilesFile, user_profiles, user_id), user_id)
    /\ UNCHANGED <<historyFile, translation_history, pc, chat_user>>

\* a call of save_user_profile(user_id, profile)
Set(user_id, profile, io) ==
    /\ pc = "idle"
    /\ Returned("set",
                save_user_profile(profilesFile, user_profiles, user_id, profile, io),
                user_id, profile)
    /\ UNCHANGED <<historyFile, translation_history, pc, chat_user>>

\* a call of register_user(), the two input() lines being user_id, target_lang
Register(user_id, target_lang, io) ==
    /\ pc = "idle"
    /\ Returned("register",
                register_user(profilesFile, user_profiles, user_id, target_lang, io),
                user_id, [target_lang |-> target_lang])
    /\ UNCHANGED <<historyFile, translation_history, pc, chat_user>>

\* the object's history list is not what the history file holds
Stale == translation_history # Persisted(historyFile)

\* the state translate leaves, r being its result; the history file holds
\* MaxHist entries at most
TranslateDone(op, r, text, user_id, now, stale, shown) ==
    /\ Len(Persisted(r.file)) <= MaxHist
    /\ user_profiles' = r.profiles
    /\ profilesFile' = r.pfile
    /\ historyFile' = r.file
    /\ translation_history' = r.history
    /\ ret' = [Event(op) EXCEPT
                  !.user = user_id, !.text = text, !.raised = r.raised,
                  !.exc = r.exc, !.value = r.value, !.stage = r.stage,
                  !.translated = r.translated, !.shown = shown,
                  !.now = IF r.stage = "" THEN NoTime ELSE now,
                  !.stale = r.stage # "" /\ stale]

\* a call of translate(text, user_id)
Translate(text, user_id, env) ==
    /\ pc = "idle"
    /\ TranslateDone("translate",
                     translate(profilesFile, user_profiles, historyFile,
                               translation_history, text, user_id, env),
                     text, user_id, env.now, Stale, "none")
    /\ UNCHANGED <<pc, chat_user>>

\* a call of chat(user_id), up to the first input()
ChatStart(user_id) ==
    /\ pc = "idle"
    /\ pc' = "chat"
    /\ chat_user' = user_id
    /\ ret' = [Event("chat_start") EXCEPT !.user = user_id]
    /\ UNCHANGED <<profilesFile, historyFile, user_profiles, translation_history>>

\* the state one pass of chat()'s loop leaves, r being chat_step's result
ChatDone(r, line, now, stale) ==
    /\ TranslateDone("chat", r, line, chat_user, now, stale, r.shown)
    /\ pc' = r.pc

\* one pass of chat()'s loop
ChatInput(line, env) ==
    /\ pc = "chat"
    /\ ChatDone(chat_step(profilesFile, user_profiles, historyFile,
                          translation_history, line, chat_user, env),
                line, env.now, Stale)
    /\ UNCHANGED chat_user

\* the state another run's append leaves, a being its result
ExternalDone(a) ==
    /\ Len(a.history) <= MaxHist
    /\ historyFile' = a.file

\* another run of the program appends an entry to the history file
ExternalAppend(entry) ==
    /\ ExternalDone(append_to_translation_history(historyFile, <<>>, entry,
                                                  "ok", "ok"))
    /\ ret' = Event("external")
    /\ UNCHANGED <<profilesFile, user_profiles, translation_history, pc, chat_user>>

DoGet == \E u \in UserIds : Get(u)
DoSet == \E u \in UserIds, l \in Langs, io \in WriteOutcomes :
             Set(u, [target_lang |-> l], io)
DoRegister == \E u \in UserIds, l \in Langs, io \in WriteOutcomes : Register(u, l, io)
DoTranslate == \E t \in Texts, u \in UserIds, env \in Envs : Translate(t, u, env)
DoChatStart == \E u \in UserIds : ChatStart(u)
DoChatInput == \E line \in Lines, env \in Envs : ChatInput(line, env)
DoExternalAppend == \E e \in Entries : ExternalAppend(e)

\* the whole program
Next ==
    \/ Restart
    \/ DoGet
    \/ DoSet
    \/ DoRegister
    \/ DoTranslate
    \/ DoChatStart
    \/ DoChatInput
    \/ DoExternalAppend

Spec == Init /\ [][Next]_vars

(* The whole program's state space is the product of the registry's and the  *)
(* history's.  The properties are verified on two parts of it, each of them  *)
(* Spec with the calls one group of properties is about.                     *)

\* translate calls, chat sessions, runs of the program and other runs
\* appending to the history; no call writes the profile file
NextTranslate ==
    \/ Restart
    \/ DoTranslate
    \/ DoChatStart
    \/ DoChatInput
    \/ DoExternalAppend

SpecTranslate == Init /\ [][NextTranslate]_vars

\* the registry's calls, with translate calls and runs of the program between
\* them, started without a history file
InitRegistry ==
    /\ Init
    /\ historyFile = Missing

NextRegistry ==
    \/ Restart
    \/ DoGet
    \/ DoSet
    \/ DoRegister
    \/ DoTranslate

SpecRegistry == InitRegistry /\ [][NextRegistry]_vars

----------------------------------------------------------------------------
(* Properties *)

\* the event is a translate call, made directly or by the chat loop
IsTranslateEvent(e) == e.op \in {"translate", "chat"} /\ e.stage # ""

\* the translate call returned
Succeeded(e) == IsTranslateEvent(e) /\ ~e.raised

\* the entry the translate call of the event builds
EntryOf(e) ==
    [user_id |-> e.user, timestamp |-> e.now, input_text |-> e.text,
     translated_text |-> e.translated]

\* what a caller can tell an exception by: its class and the message prefix
Kind(e) == <<e.type, e.prefix>>

\* the kinds of exception translate raises at a step
ErrorKinds(stage) ==
    {Kind(r.exc) :
        r \in {x \in {translate(Missing, EmptyDict, Missing, <<>>, t, u, env) :
                         t \in Texts, u \in UserIds, env \in Envs} :
                  x.raised /\ x.stage = stage}}

\* "exit" in any mix of cases
ExitLine(line) ==
    /\ Len(line) = 4
    /\ line[1] \in {"e", "E"}
    /\ line[2] \in {"x", "X"}
    /\ line[3] \in {"i", "I"}
    /\ line[4] \in {"t", "T"}

\* the file is missing, zero-length or not JSON
UnusableProfiles(f) == ~f.exists \/ f.data = <<>> \/ ~loads_profiles(f.data).ok
UnusableHistory(f) == ~f.exists \/ f.data = <<>> \/ ~loads_history(f.data).ok

\* C1: every translate call leaves the persisted history as it was, followed
\* by the call's entry if the call returned and by nothing if it raised, so
\* that the entries already persisted keep their positions and values.
C1_AppendOnly ==
    [][IsTranslateEvent(ret') =>
          Persisted(historyFile') =
              IF Succeeded(ret')
              THEN Append(Persisted(historyFile), EntryOf(ret'))
              ELSE Persisted(historyFile)]_vars

\* C2: a translate call in which detection fails or the model of the language
\* pair cannot be loaded raises and leaves the history file as it was.
C2_NoEntryOnEarlyFailure ==
    [][IsTranslateEvent(ret') /\ ret'.stage \in {"detect", "capability"} =>
          ret'.raised /\ historyFile' = historyFile]_vars

C2_Witness ==
    /\ ret.op = "translate"
    /\ ret.stage = "capability"
    /\ ret.raised
    /\ Len(Persisted(historyFile)) = 1

\* C3: a translate call whose detection, model loading and translation
\* succeed and whose append to the history fails still returns the translated
\* text.
C3_ResultSurvives ==
    IsTranslateEvent(ret) /\ ret.stage = "append" =>
        ~ret.raised /\ ret.value = ret.translated

\* C4: after save_user_profile(user_id, profile) or register_user returns, a
\* newly constructed object loads the registry the call left, and its
\* get_user_profile(user_id) returns that profile.
C4_SetRoundTrip ==
    ret.op \in {"set", "register"} /\ ~ret.raised =>
        /\ ~load_user_profiles(profilesFile).raised
        /\ Stored(profilesFile) = user_profiles
        /\ get_user_profile(profilesFile, Stored(profilesFile), ret.user).value
               = ret.profile

C4_Witness ==
    /\ ret.op = "register"
    /\ ~ret.raised
    /\ ret.profile = [target_lang |-> s_fr]
    /\ DOMAIN user_profiles = UserIds
    /\ Len(Persisted(historyFile)) >= 1

\* C5: get_user_profile of a user without a profile returns the default
\* profile, target_lang "en", and raises nothing; a user's profile in the
\* registry stays as it is in every call but a save_user_profile or
\* register_user of that user, and get_user_profile returns it.
C5_DefaultStable ==
    [][/\ ret'.op = "get" /\ ret'.user \notin DOMAIN user_profiles =>
              ret'.profile = DefaultProfile /\ ~ret'.raised
       /\ ret'.op = "get" /\ ret'.user \in DOMAIN user_profiles =>
              ret'.profile = user_profiles[ret'.user]
       /\ \A u \in DOMAIN user_profiles :
              /\ ret'.op # "construct"
              /\ ~(ret'.op \in {"set", "register"} /\ ret'.user = u)
              => u \in DOMAIN user_profiles' /\ user_profiles'[u] = user_profiles[u]
      ]_vars

C5_Witness ==
    /\ ret.op = "get"
    /\ ret.user = <<"b">>
    /\ ret.profile = DefaultProfile
    /\ <<"b">> \notin DOMAIN Stored(profilesFile)
    /\ <<"a">> \in DOMAIN user_profiles
    /\ user_profiles[<<"a">>] = [target_lang |-> s_fr]
    /\ Len(Persisted(historyFile)) >= 1

C7_AppendOnLatest ==
    [][Succeeded(ret') =>
          /\ Persisted(historyFile')
                 = Append(Persisted(historyFile), EntryOf(ret'))
          /\ translation_history' = Persisted(historyFile')]_vars

C7_Witness ==
    /\ Succeeded(ret)
    /\ ret.stale
    /\ Len(Persisted(historyFile)) >= 2

\* C8: in the chat loop a translate call that raises, at any of its four
\* steps, is shown as an error message and the loop goes on to the next input
\* line; the loop is left on a line that is "exit" in any mix of cases, and
\* on no other line.
C8_ChatCatches ==
    [][/\ ret'.op = "chat" =>
              /\ pc' = IF ExitLine(ret'.text) THEN "idle" ELSE "chat"
              /\ ret'.raised =>
                     /\ ret'.stage \in {"detect", "capability", "invoke", "append"}
                     /\ ret'.shown = "error"
                     /\ pc' = "chat"
       /\ pc = "chat" /\ pc' # "chat" => ret'.op = "chat" /\ ExitLine(ret'.text)
      ]_vars

C8_Witness ==
    /\ ret.op = "chat"
    /\ ret.raised
    /\ ret.stage = "append"
    /\ ret.shown = "error"
    /\ pc = "chat"

\* C9: the exception translate raises when the model of the language pair
\* cannot be loaded is of a kind it raises neither when detection fails nor
\* when the translation itself fails.
C9_DistinctKinds ==
    IsTranslateEvent(ret) /\ ret.raised /\ ret.stage = "capability" =>
        Kind(ret.exc) \notin ErrorKinds("detect") \cup ErrorKinds("invoke")

\* C10: the profile file changes in save_user_profile and register_user calls
\* alone; get_user_profile and translate leave it as it is and put the default
\* profile of a user without one in the registry of the object.
C10_GetNeverWrites ==
    [][/\ profilesFile' # profilesFile => ret'.op \in {"set", "register"}
       /\ ret'.op = "get" \/ IsTranslateEvent(ret') =>
              /\ profilesFile' = profilesFile
              /\ ret'.user \in DOMAIN user_profiles'
              /\ ret'.user \notin DOMAIN user_profiles =>
                     user_profiles'[ret'.user] = DefaultProfile
      ]_vars

C10_Witness ==
    /\ ret.op = "translate"
    /\ profilesFile.exists
    /\ DOMAIN Stored(profilesFile) = {<<"a">>}
    /\ ret.user = <<"b">>
    /\ user_profiles[<<"b">>] = DefaultProfile

====
